---- MODULE Spec2Model ----
(***************************************************************************)
(* A model of the ai-hub MCP server: the resilient HTTP client             *)
(* (utils/http.py), the tool catalog and the invocation dispatcher         *)
(* (mcp/tooling.py, server/mcp_server.py).                                 *)
(*                                                                         *)
(* Durations are counted in half seconds, so that the default              *)
(* backoff_factor 0.5 is the integer 1 and 2.0 is the integer 4.           *)
(***************************************************************************)
EXTENDS Integers, Sequences, FiniteSets, TLC

VARIABLES
    config,     \* the arguments ResilientAsyncHTTPClient was constructed with
    client,     \* the client's fields after __init__: retries, backoff_factor
    req,        \* per request() call: the coroutine's locals and position
    tools,      \* ToolCatalog.tools: the dict, as its (name, contract) items in order
    host,       \* the shape of the host server object handed to bind_to_server
    hostTools,  \* what the host has accepted: the handlers registered with it
    regLog,     \* the register calls made so far, each with how it ended
    inv,        \* the invocation in progress or last finished
    load,       \* load_tools: the settings it was given and what it did
    run         \* a tool handler of tools/: its payload, position and requests

httpVars == <<config, client, req>>

catalogVars == <<tools, host, hostTools, regLog>>

serverVars == <<tools, host, hostTools, regLog, inv>>

toolVars == <<load, run>>

vars == <<config, client, req, tools, host, hostTools, regLog, inv, load, run>>

----------------------------------------------------------------------------
(* Bounds *)

MaxRetries == 3
NumCalls == 1
MaxRegs == 3
MaxLoad == 2
MaxEntries == 2
NumConcurrent == 2

----------------------------------------------------------------------------
(* utils/http.py *)

None == "None"

Max(a, b) == IF a >= b THEN a ELSE b

RECURSIVE Pow2(_)
Pow2(n) == IF n <= 0 THEN 1 ELSE 2 * Pow2(n - 1)

Calls == 1..NumCalls

RetriesArgs == (0 - 1)..MaxRetries

\* -0.5, 0, 0.5 and 2.0 seconds
BackoffArgs == {0 - 1, 0, 1, 4}

Statuses == {200, 403, 404, 500}

\* response.text: a JSON object, a JSON array, and two pages that are no JSON,
\* the second an error page of a proxy that names a status of its own
Bodies == {"{}", "[1]", "<html>", "<html>404 Not Found</html>"}

TransientCauses == {"ConnectError", "ReadTimeout"}

\* what one `await session.request(...)` can bring
AttemptResults ==
    [kind : {"response"}, status : Statuses, body : Bodies, cause : {None}]
        \cup [kind : {"transient"}, status : {0}, body : {None}, cause : TransientCauses]
        \cup [kind : {"other"}, status : {0}, body : {None}, cause : {"RuntimeError"}]

\* response.json(): the parsed value, or None when the body is no JSON
Json(body) ==
    CASE body = "{}" -> "dict"
      [] body = "[1]" -> "list"
      [] OTHER -> None

\* a raise_for_status that lets client errors through
RaisesForServerErrorOnly(status) == status >= 500

\* response.raise_for_status(): TRUE when it raises HTTPStatusError
RaisesForStatus(status) == status >= 400

NoOutcome ==
    [tag |-> "none", value |-> None, type |-> None, kind |-> None,
     attempts |-> 0, cause |-> None, status |-> 0, detail |-> None]

\* _extract_error_detail: the text of the response, or str(exc) without one
ExtractErrorDetail(body) == IF body # "" THEN body ELSE "str(exc)"

Returned(v) == [NoOutcome EXCEPT !.tag = "value", !.value = v]

\* raise ToolExecutionError(f"API request failed: {status} ...")
StatusError(status) ==
    [NoOutcome EXCEPT !.tag = "error", !.type = "ToolExecutionError",
                      !.kind = "API request failed", !.status = status]

\* the same with the detail that the message ends with
StatusErrorOf(res) ==
    [StatusError(res.status) EXCEPT !.detail = ExtractErrorDetail(res.body)]

\* raise ToolExecutionError(f"Unexpected HTTP error: {exc}")
UnexpectedError(cause) ==
    [NoOutcome EXCEPT !.tag = "error", !.type = "ToolExecutionError",
                      !.kind = "Unexpected HTTP error", !.cause = cause]

\* raise ToolExecutionError(f"Request failed after {retries + 1} attempts: {last_error}")
ExhaustedError(retries, last_error) ==
    [NoOutcome EXCEPT !.tag = "error", !.type = "ToolExecutionError",
                      !.kind = "Request failed after", !.attempts = retries + 1,
                      !.cause = last_error]

\* ResilientAsyncHTTPClient.__init__
ClientInit(retries, backoff_factor) ==
    [retries |-> Max(retries, 0), backoff_factor |-> Max(backoff_factor, 0)]

\* a backoff that grows linearly with the attempt number
SleepForLinear(backoff_factor, attempt) == backoff_factor * (attempt + 1)

\* sleep_for = self.backoff_factor * (2**attempt)
SleepFor(backoff_factor, attempt) == backoff_factor * Pow2(attempt)

\* a process that has built a client and no server
NoHost ==
    [mcp_types |-> "absent", add_tool |-> FALSE, add_fn_first |-> "ok",
     add_keywords |-> "ok", add_tool_obj |-> "ok", register_tool |-> "absent",
     tool |-> "absent", decorated |-> "ok"]

IdleCall ==
    [pc |-> "idle", attempt |-> 0, last_error |-> None, sleep_for |-> 0,
     made |-> 0, results |-> <<>>, slept |-> <<>>, outcome |-> NoOutcome]

InFlight(c) == req[c].pc \in {"attempting", "sleeping"}

\* the head of the while loop: another attempt, or the raise after the loop
LoopHead(r, retries) ==
    IF r.attempt <= retries
    THEN [r EXCEPT !.pc = "attempting"]
    ELSE [r EXCEPT !.pc = "raised",
                   !.outcome = ExhaustedError(retries, r.last_error)]

\* request(): attempt = 0, last_error = None, enter the loop
StartRequest(c) ==
    /\ req[c].pc = "idle"
    /\ req' = [req EXCEPT ![c] =
                 LoopHead([IdleCall EXCEPT !.attempt = 0, !.last_error = None],
                          client.retries)]
    /\ UNCHANGED <<config, client>>
    /\ UNCHANGED serverVars
    /\ UNCHANGED toolVars

\* a retry loop that gives up one attempt early
OnTransientOneShort(r, cause, retries, backoff_factor) ==
    LET r1 == [r EXCEPT !.last_error = cause] IN
    IF r1.attempt + 1 >= retries
    THEN [r1 EXCEPT !.pc = "raised",
                    !.outcome = ExhaustedError(retries, r1.last_error)]
    ELSE LET sleep_for == SleepFor(backoff_factor, r1.attempt)
             r2 == [r1 EXCEPT !.sleep_for = sleep_for, !.attempt = @ + 1]
         IN IF sleep_for # 0
            THEN [r2 EXCEPT !.pc = "sleeping",
                            !.slept = Append(@, [before |-> r2.attempt,
                                                 delay |-> sleep_for])]
            ELSE [r2 EXCEPT !.pc = "attempting"]

\* the except clause for httpx.RequestError / httpx.TimeoutException
OnTransient(r, cause, retries, backoff_factor) ==
    LET r1 == [r EXCEPT !.last_error = cause] IN
    IF r1.attempt = retries
    THEN [r1 EXCEPT !.pc = "raised",
                    !.outcome = ExhaustedError(retries, r1.last_error)]
    ELSE LET sleep_for == SleepFor(backoff_factor, r1.attempt)
             r2 == [r1 EXCEPT !.sleep_for = sleep_for, !.attempt = @ + 1]
         IN IF sleep_for # 0
            THEN [r2 EXCEPT !.pc = "sleeping",
                            !.slept = Append(@, [before |-> r2.attempt,
                                                 delay |-> sleep_for])]
            ELSE LoopHead(r2, retries)

\* a try block that takes a body that is no JSON for a transport failure
OnAttemptRetryingParse(r, res, retries, backoff_factor) ==
    LET r0 == [r EXCEPT !.made = @ + 1, !.results = Append(@, res)] IN
    CASE res.kind = "response" /\ RaisesForStatus(res.status) ->
            [r0 EXCEPT !.pc = "raised", !.outcome = StatusErrorOf(res)]
      [] res.kind = "response" /\ ~RaisesForStatus(res.status) ->
            IF Json(res.body) # None
            THEN [r0 EXCEPT !.pc = "returned", !.outcome = Returned(Json(res.body))]
            ELSE OnTransient(r0, "JSONDecodeError", retries, backoff_factor)
      [] res.kind = "transient" ->
            OnTransient(r0, res.cause, retries, backoff_factor)
      [] OTHER ->
            [r0 EXCEPT !.pc = "raised", !.outcome = UnexpectedError(res.cause)]

\* one pass through the try block, from the await of session.request on
OnAttempt(r, res, retries, backoff_factor) ==
    LET r0 == [r EXCEPT !.made = @ + 1, !.results = Append(@, res)] IN
    CASE res.kind = "response" /\ RaisesForStatus(res.status) ->
            [r0 EXCEPT !.pc = "raised", !.outcome = StatusErrorOf(res)]
      [] res.kind = "response" /\ ~RaisesForStatus(res.status) ->
            IF Json(res.body) # None
            THEN [r0 EXCEPT !.pc = "returned", !.outcome = Returned(Json(res.body))]
            ELSE [r0 EXCEPT !.pc = "raised",
                            !.outcome = UnexpectedError("JSONDecodeError")]
      [] res.kind = "transient" ->
            OnTransient(r0, res.cause, retries, backoff_factor)
      [] OTHER ->
            [r0 EXCEPT !.pc = "raised", !.outcome = UnexpectedError(res.cause)]

\* a client that keeps the attempt counter on itself: every request in flight
\* sees the count of the one that last finished an attempt
AttemptCompletesSharedCounter(c) ==
    /\ req[c].pc = "attempting"
    /\ \E res \in AttemptResults :
          LET mine == OnAttempt(req[c], res, client.retries, client.backoff_factor)
          IN req' = [d \in DOMAIN req |->
                       IF d = c THEN mine
                       ELSE IF InFlight(d)
                            THEN [req[d] EXCEPT !.attempt = mine.attempt]
                            ELSE req[d]]
    /\ UNCHANGED <<config, client>>
    /\ UNCHANGED serverVars
    /\ UNCHANGED toolVars

\* a backoff that sleeps on the thread of the event loop: no response is
\* taken while a request sleeps
AttemptCompletesBlocked(c) ==
    /\ req[c].pc = "attempting"
    /\ \A d \in DOMAIN req : req[d].pc # "sleeping"
    /\ \E res \in AttemptResults :
          req' = [req EXCEPT ![c] =
                    OnAttempt(req[c], res, client.retries, client.backoff_factor)]
    /\ UNCHANGED <<config, client>>
    /\ UNCHANGED serverVars
    /\ UNCHANGED toolVars

\* the awaited session.request completes with `res`
AttemptCompletes(c) ==
    /\ req[c].pc = "attempting"
    /\ \E res \in AttemptResults :
          req' = [req EXCEPT ![c] =
                    OnAttempt(req[c], res, client.retries, client.backoff_factor)]
    /\ UNCHANGED <<config, client>>
    /\ UNCHANGED serverVars
    /\ UNCHANGED toolVars

\* asyncio.sleep(sleep_for) returns; back to the head of the loop
SleepCompletes(c) ==
    /\ req[c].pc = "sleeping"
    /\ req' = [req EXCEPT ![c] = LoopHead(req[c], client.retries)]
    /\ UNCHANGED <<config, client>>
    /\ UNCHANGED serverVars
    /\ UNCHANGED toolVars

\* a caller that awaits each request before it makes the next
SequentialStart(c) ==
    /\ \A d \in Calls : ~InFlight(d)
    /\ \A d \in Calls : d < c => req[d].pc # "idle"
    /\ StartRequest(c)

----------------------------------------------------------------------------
(* pydantic models: schemas/base.py and the tools' input and output models *)

\* a dict with string keys; a value is known by its type alone
EmptyMap == [k \in {} |-> None]

NoModel == [cls |-> None, fields |-> EmptyMap]

Required(types) == [accepts |-> types, required |-> TRUE, default |-> None]

Optional(types, default) == [accepts |-> types, required |-> FALSE, default |-> default]

\* the fields each model class declares
ModelFields(cls) ==
    CASE cls = "WeatherInput" ->
            ("location" :> Required({"str"}))
                @@ ("units" :> Optional({"str"}, "str"))
      [] cls = "WeatherOutput" ->
            ("conditions" :> Optional({"dict"}, "dict"))
      [] cls = "SlackPostMessageInput" ->
            ("channel" :> Required({"str"}))
                @@ ("text" :> Required({"str"}))
                @@ ("thread_ts" :> Optional({"str", "None"}, "None"))
      [] cls = "SlackPostMessageOutput" ->
            ("message_ts" :> Required({"str"}))
                @@ ("status" :> Required({"str"}))
                @@ ("channel" :> Required({"str"}))
                @@ ("channel_name" :> Optional({"str", "None"}, "None"))
                @@ ("permalink" :> Optional({"str", "None"}, "None"))
      [] cls = "WeatherConfig" ->
            ("api_key" :> Required({"str"}))
                @@ ("retries" :> Optional({"int"}, "int"))
      [] cls = "SlackConfig" ->
            ("token" :> Required({"str"}))
                @@ ("retries" :> Optional({"int"}, "int"))
      [] OTHER -> EmptyMap

\* Model.model_validate(mapping): every declared field is given with a value of
\* its type or has a default; keys that are not fields are dropped
Validate(cls, mapping) ==
    LET F == ModelFields(cls)
        ok == \A f \in DOMAIN F :
                 IF f \in DOMAIN mapping
                 THEN mapping[f] \in F[f].accepts
                 ELSE ~F[f].required
    IN IF ok
       THEN [valid |-> TRUE,
             model |-> [cls |-> cls,
                        fields |-> [f \in DOMAIN F |->
                                      IF f \in DOMAIN mapping
                                      THEN mapping[f] ELSE F[f].default]]]
       ELSE [valid |-> FALSE, model |-> NoModel]

\* Model.model_dump()
ModelDump(model) == model.fields

\* Python values as far as the code looks at them: None, a dict, a pydantic
\* model (anything with model_dump), a list of pairs, a number, another object
NoneV == [t |-> "None", cls |-> None, m |-> EmptyMap]

DictV(mapping) == [t |-> "dict", cls |-> None, m |-> mapping]

ModelV(model) == [t |-> "model", cls |-> model.cls, m |-> model.fields]

PairsV(mapping) == [t |-> "pairs", cls |-> None, m |-> mapping]

IntV == [t |-> "int", cls |-> None, m |-> EmptyMap]

ObjectV == [t |-> "object", cls |-> None, m |-> EmptyMap]

\* Model.model_validate(value): a dict is validated, an instance of the class
\* itself is taken as it is, anything else is refused
ValidateValue(cls, v) ==
    CASE v.t = "dict" -> Validate(cls, v.m)
      [] v.t = "model" /\ v.cls = cls ->
            [valid |-> TRUE, model |-> [cls |-> cls, fields |-> v.m]]
      [] OTHER -> [valid |-> FALSE, model |-> NoModel]

\* the input mappings of the model
InputMappings ==
    {EmptyMap,
     "location" :> "str",
     ("location" :> "str") @@ ("units" :> "str"),
     "location" :> "int",
     ("location" :> "str") @@ ("units" :> "int"),
     ("channel" :> "str") @@ ("text" :> "str"),
     "channel" :> "str",
     ("location" :> "str") @@ ("channel" :> "str") @@ ("text" :> "str")}

\* the raw mappings a handler may return
OutputMappings ==
    {EmptyMap,
     "conditions" :> "dict",
     "conditions" :> "str",
     ("conditions" :> "dict") @@ ("units" :> "str"),
     ("message_ts" :> "str") @@ ("status" :> "str") @@ ("channel" :> "str"),
     ("message_ts" :> "str") @@ ("status" :> "str")}

\* request.context
Contexts == {NoneV, DictV("user" :> "str")}

ToolNames == {"weather", "slack_post_message", "github_issues"}

\* ToolInvocationRequest
Requests == [tool : ToolNames, input : InputMappings, context : Contexts]

----------------------------------------------------------------------------
(* mcp/tooling.py: the contracts and the catalog *)

\* the ToolSpec objects of the model: two tools, and a second contract that
\* is built under the name of the first
ToolSpecs ==
    <<[name |-> "weather", input_model |-> "WeatherInput",
       output_model |-> "WeatherOutput"],
      [name |-> "slack_post_message", input_model |-> "SlackPostMessageInput",
       output_model |-> "SlackPostMessageOutput"],
      [name |-> "weather", input_model |-> "WeatherInput",
       output_model |-> "WeatherOutput"]>>

SpecIds == DOMAIN ToolSpecs

NoError == [type |-> None, kind |-> None]

\* the keys of a dict, in insertion order
DictKeys(d) == [i \in 1..Len(d) |-> d[i][1]]

DictHas(d, k) == \E i \in 1..Len(d) : d[i][1] = k

\* d.get(k): the value, or 0 for None
DictGet(d, k) ==
    IF DictHas(d, k)
    THEN d[CHOOSE i \in 1..Len(d) : d[i][1] = k][2]
    ELSE 0

\* d[k] = v: a present key keeps its place and takes the new value
DictSet(d, k, v) ==
    IF DictHas(d, k)
    THEN [i \in 1..Len(d) |-> IF d[i][1] = k THEN <<k, v>> ELSE d[i]]
    ELSE Append(d, <<k, v>>)

\* a register that lets the later contract replace the earlier one
CatalogRegisterOverwrite(d, id) ==
    [tools |-> DictSet(d, ToolSpecs[id].name, id), error |-> NoError]

\* ToolCatalog.register
CatalogRegister(d, id) ==
    IF DictHas(d, ToolSpecs[id].name)
    THEN [tools |-> d,
          error |-> [type |-> "ValueError", kind |-> "Tool already registered"]]
    ELSE [tools |-> DictSet(d, ToolSpecs[id].name, id), error |-> NoError]

\* ToolCatalog.get
CatalogGet(d, name) == DictGet(d, name)

\* a list that gives the contracts latest first
CatalogListLatestFirst(d) == [i \in 1..Len(d) |-> d[Len(d) + 1 - i][2]]

\* ToolCatalog.list
CatalogList(d) == [i \in 1..Len(d) |-> d[i][2]]

----------------------------------------------------------------------------
(* mcp/tooling.py: ToolSpec.bind_to_server *)

\* how one call of a host registration function ends
CallOutcomes == {"ok", "TypeError", "Exception"}

\* the host server objects: which registration functions the object has and
\* how each call convention ends on it; mcp_types is the imported module:
\* missing, without a Tool class, or with one whose constructor takes or
\* refuses the keyword arguments
Hosts ==
    [mcp_types : {"absent", "no Tool", "Tool", "Tool raises"},
     add_tool : BOOLEAN,
     add_fn_first : CallOutcomes,
     add_keywords : CallOutcomes,
     add_tool_obj : CallOutcomes,
     register_tool : {"absent"} \cup CallOutcomes,
     tool : {"absent"} \cup CallOutcomes,
     decorated : CallOutcomes]

\* fields that the object does not have, or that no call reaches, at one value
Canonical(h) ==
    /\ ~h.add_tool =>
         h.add_fn_first = "ok" /\ h.add_keywords = "ok" /\ h.add_tool_obj = "ok"
    /\ h.add_fn_first # "TypeError" => h.add_keywords = "ok"
    /\ (h.add_fn_first # "Exception" \/ h.mcp_types # "Tool") => h.add_tool_obj = "ok"
    /\ h.tool # "ok" => h.decorated = "ok"

\* the results of bind_to_server; tried is the history of the calls of the
\* host's registration functions that the call made, oldest first
Bound(id, via, handler) ==
    [raised |-> FALSE, error |-> NoError,
     regs |-> <<[name |-> ToolSpecs[id].name, spec |-> id, via |-> via,
                 handler |-> handler]>>,
     tried |-> <<>>]

BindRaised(type, kind) ==
    [raised |-> TRUE, error |-> [type |-> type, kind |-> kind], regs |-> <<>>,
     tried |-> <<>>]

\* one call of a registration function, made before what follows it
Attempted(convention, outcome, rest) ==
    [rest EXCEPT
       !.tried = <<[convention |-> convention, outcome |-> outcome]>> \o @]

\* server.tool(...)(mcp_handler), or the final raise
BindDecorator(id, h) ==
    IF h.tool # "absent"
    THEN IF h.tool # "ok"
         THEN Attempted("tool", h.tool, BindRaised(h.tool, "tool"))
         ELSE IF h.decorated # "ok"
              THEN Attempted("tool", h.decorated,
                             BindRaised(h.decorated, "decorated"))
              ELSE Attempted("tool", "ok", Bound(id, "tool", "mcp_handler"))
    ELSE BindRaised("RuntimeError", "Incompatible MCP server")

\* server.register_tool(name=..., handler=mcp_handler)
BindRegisterTool(id, h) ==
    IF h.register_tool # "absent"
    THEN Attempted("register_tool", h.register_tool,
                   IF h.register_tool = "ok"
                   THEN Bound(id, "register_tool", "mcp_handler")
                   ELSE BindDecorator(id, h))
    ELSE BindDecorator(id, h)

\* the three ways add_tool is called
BindAddTool(id, h) ==
    IF h.add_tool
    THEN Attempted("add_tool(fn)", h.add_fn_first,
           CASE h.add_fn_first = "ok" ->
                  Bound(id, "add_tool(fn)", "fastmcp_handler")
             [] h.add_fn_first = "TypeError" ->
                  Attempted("add_tool(keywords)", h.add_keywords,
                     IF h.add_keywords = "ok"
                     THEN Bound(id, "add_tool(keywords)", "mcp_handler")
                     ELSE BindRegisterTool(id, h))
             [] OTHER ->
                  IF h.mcp_types = "Tool"
                  THEN Attempted("add_tool(Tool)", h.add_tool_obj,
                          IF h.add_tool_obj = "ok"
                          THEN Bound(id, "add_tool(Tool)", "mcp_handler")
                          ELSE BindRegisterTool(id, h))
                  ELSE BindRegisterTool(id, h))
    ELSE BindRegisterTool(id, h)

\* ToolSpec.bind_to_server
BindToServer(id, h) ==
    IF h.mcp_types = "absent"
    THEN BindRaised("RuntimeError", "mcp not installed")
    ELSE BindAddTool(id, h)

----------------------------------------------------------------------------
(* server/mcp_server.py: AIHubMCPServer.register_tool *)

\* one line of the history of the registrations: the operation, the tool, how
\* it ended, whether bind_to_server ran and the registration calls it made
LogEntry(op, id, error) ==
    [op |-> op, spec |-> id, error |-> error, bind |-> FALSE, tried |-> <<>>]

\* catalog.register(spec) called on the catalog itself
Register(id) ==
    /\ Len(regLog) < MaxRegs
    /\ LET r == CatalogRegister(tools, id) IN
          /\ tools' = r.tools
          /\ regLog' = Append(regLog, LogEntry("catalog.register", id, r.error))
    /\ UNCHANGED <<host, hostTools>>
    /\ UNCHANGED httpVars
    /\ UNCHANGED toolVars
    /\ UNCHANGED inv

\* AIHubMCPServer.register_tool: catalog.register, then bind_to_server; an
\* exception of the first ends the call before the second
ServerRegisterTool(st, id, h) ==
    LET r == CatalogRegister(st.tools, id) IN
    IF r.error # NoError
    THEN [tools |-> r.tools, hostTools |-> st.hostTools,
          regLog |-> Append(st.regLog, LogEntry("register_tool", id, r.error))]
    ELSE LET b == BindToServer(id, h) IN
         [tools |-> r.tools, hostTools |-> st.hostTools \o b.regs,
          regLog |-> Append(st.regLog,
                       [LogEntry("register_tool", id, b.error) EXCEPT
                          !.bind = TRUE, !.tried = b.tried])]

RegisterTool(id) ==
    /\ Len(regLog) < MaxRegs
    /\ LET st == ServerRegisterTool(
                    [tools |-> tools, hostTools |-> hostTools, regLog |-> regLog],
                    id, host)
       IN /\ tools' = st.tools
          /\ hostTools' = st.hostTools
          /\ regLog' = st.regLog
    /\ UNCHANGED host
    /\ UNCHANGED httpVars
    /\ UNCHANGED toolVars
    /\ UNCHANGED inv

\* the client of a process that only loads tools
DefaultClient == ClientInit(0, 1)

----------------------------------------------------------------------------
(* mcp/tooling.py: ToolSpec.invoke; server/mcp_server.py: AIHubMCPServer.invoke *)

NoFailure == [type |-> None, kind |-> None, msg |-> None, cause |-> None]

Failure(type, kind, msg, cause) ==
    [type |-> type, kind |-> kind, msg |-> msg, cause |-> cause]

NoResponse == [set |-> FALSE, ok |-> FALSE, output |-> EmptyMap, error |-> None]

NoResult == [kind |-> "none", type |-> None, msg |-> None, value |-> NoneV]

HandlerReturns(v) == [kind |-> "return", type |-> None, msg |-> None, value |-> v]

HandlerRaises(type, msg) == [kind |-> "raise", type |-> type, msg |-> msg, value |-> NoneV]

\* what `await self.handler(payload, context)` can bring: a raw mapping, an
\* instance of the tool's output model, the payload handed back (a pydantic
\* model of another class), or an exception
HandlerResults(id, payload) ==
    {HandlerReturns(DictV(om)) : om \in OutputMappings}
        \cup {HandlerReturns(ModelV(Validate(ToolSpecs[id].output_model, om).model)) :
                om \in {x \in OutputMappings :
                          Validate(ToolSpecs[id].output_model, x).valid}}
        \cup {HandlerReturns(ModelV(payload))}
        \cup {HandlerRaises("ToolExecutionError", "X"),
              HandlerRaises("ToolExecutionError", ""),
              HandlerRaises("ValueError", "boom"),
              HandlerRaises("ConfigurationError", "bad config")}

HandlerCall(id, payload, context) ==
    [spec |-> id, payload |-> payload, context |-> context]

\* the positional and keyword arguments a host called a registered handler with
NoCall == [made |-> FALSE, args |-> <<>>, kwargs |-> EmptyMap]

HostCall(args, kwargs) == [made |-> TRUE, args |-> args, kwargs |-> kwargs]

IdleInvocation ==
    [pc |-> "idle", entry |-> None, tool |-> None, spec |-> 0, input |-> NoneV,
     payload |-> NoModel, context |-> NoneV, trace |-> <<>>, called |-> <<>>,
     result |-> NoResult, response |-> NoResponse, returned |-> NoneV,
     error |-> NoFailure, call |-> NoCall]

\* a reply that reports the failure and forgets its message
ErrorResponseUnset(msg) ==
    [set |-> TRUE, ok |-> FALSE, output |-> EmptyMap, error |-> None]

\* ToolInvocationResponse(ok=False, output={}, error=str(exc))
ErrorResponse(msg) ==
    [set |-> TRUE, ok |-> FALSE, output |-> EmptyMap, error |-> msg]

\* ToolInvocationResponse(ok=True, output=...)
OkResponse(output) ==
    [set |-> TRUE, ok |-> TRUE, output |-> output, error |-> None]

\* the call of the handler, at which invoke and the host handlers suspend
CallHandler(iv, id, payload, context) ==
    [iv EXCEPT !.pc = "executing", !.payload = payload, !.context = context,
               !.called = Append(@, HandlerCall(id, payload, context)),
               !.trace = @ \o <<"validating input", "executing handler">>]

\* model_validate of the input raises
InputRefused(iv, cls) ==
    [iv EXCEPT !.pc = "raised",
               !.error = Failure("ValidationError", "input", cls, None),
               !.trace = @ \o <<"validating input", "raised">>]

Received(entry, tool, id, input) ==
    [IdleInvocation EXCEPT !.entry = entry, !.tool = tool, !.spec = id,
                           !.input = input, !.trace = <<"received">>]

\* an invoke that hands the handler the input as it came
SpecInvokeStartUnvalidated(id, request, entry) ==
    CallHandler(Received(entry, request.tool, id, DictV(request.input)), id,
                [cls |-> ToolSpecs[id].input_model, fields |-> request.input],
                request.context)

\* ToolSpec.invoke as far as the await of the handler
SpecInvokeStart(id, request, entry) ==
    LET cls == ToolSpecs[id].input_model
        v == Validate(cls, request.input)
        iv == Received(entry, request.tool, id, DictV(request.input))
    IN IF v.valid
       THEN CallHandler(iv, id, v.model, request.context)
       ELSE InputRefused(iv, cls)

\* a dispatcher that answers an unknown tool name with an error response
ServerInvokeStartAnswering(d, request) ==
    LET id == CatalogGet(d, request.tool) IN
    IF id = 0
    THEN [Received("AIHubMCPServer.invoke", request.tool, 0, DictV(request.input))
            EXCEPT !.pc = "responded", !.response = ErrorResponse("Unknown tool"),
                   !.trace = @ \o <<"responded-error">>]
    ELSE SpecInvokeStart(id, request, "AIHubMCPServer.invoke")

\* AIHubMCPServer.invoke as far as the await of the handler
ServerInvokeStart(d, request) ==
    LET id == CatalogGet(d, request.tool) IN
    IF id = 0
    THEN [Received("AIHubMCPServer.invoke", request.tool, 0, DictV(request.input))
            EXCEPT !.pc = "raised",
                   !.error = Failure("ToolExecutionError", "Unknown tool",
                                     request.tool, None),
                   !.trace = @ \o <<"raised">>]
    ELSE SpecInvokeStart(id, request, "AIHubMCPServer.invoke")

\* an invoke that re-raises every exception of the handler
OnHandlerRaiseAll(iv, result) ==
    [iv EXCEPT !.pc = "raised",
               !.error = Failure("ToolExecutionError", "handler failed",
                                 result.msg, result.type),
               !.trace = @ \o <<"raised">>]

\* an invoke that turns every exception of the handler into a response
OnHandlerRaiseNone(iv, result) ==
    [iv EXCEPT !.pc = "responded", !.response = ErrorResponse(result.msg),
               !.trace = @ \o <<"responded-error">>]

\* ToolSpec.invoke: the two except clauses around the handler
OnHandlerRaise(iv, result) ==
    IF result.type = "ToolExecutionError"
    THEN [iv EXCEPT !.pc = "responded", !.response = ErrorResponse(result.msg),
                    !.trace = @ \o <<"responded-error">>]
    ELSE [iv EXCEPT !.pc = "raised",
                    !.error = Failure("ToolExecutionError", "handler failed",
                                      result.msg, result.type),
                    !.trace = @ \o <<"raised">>]

\* model_validate of the handler's result raises
OutputRefused(iv) ==
    [iv EXCEPT !.pc = "raised",
               !.error = Failure("ValidationError", "output",
                                 ToolSpecs[iv.spec].output_model, None),
               !.trace = @ \o <<"validating output", "raised">>]

\* ToolSpec.invoke after the handler has returned: a result that is a pydantic
\* model of any class is dumped as it is, anything else goes through
\* output_model.model_validate
OnHandlerReturn(iv, result) ==
    IF result.value.t = "model"
    THEN [iv EXCEPT !.pc = "responded",
                    !.response = OkResponse(result.value.m),
                    !.trace = @ \o <<"validating output", "responded-ok">>]
    ELSE LET v == ValidateValue(ToolSpecs[iv.spec].output_model, result.value) IN
         IF v.valid
         THEN [iv EXCEPT !.pc = "responded",
                         !.response = OkResponse(ModelDump(v.model)),
                         !.trace = @ \o <<"validating output", "responded-ok">>]
         ELSE OutputRefused(iv)

\* ToolSpec.invoke from the completion of the handler on
InvokeFinish(iv, result) ==
    IF result.kind = "raise"
    THEN OnHandlerRaise([iv EXCEPT !.result = result], result)
    ELSE OnHandlerReturn([iv EXCEPT !.result = result], result)

----------------------------------------------------------------------------
(* mcp/tooling.py: the handlers bind_to_server registers with the host *)

\* _extract_invocation_payload
ExtractInvocationPayload(args, kwargs) ==
    LET a0 == IF "arguments" \in DOMAIN kwargs THEN kwargs["arguments"]
              ELSE IF "input" \in DOMAIN kwargs THEN kwargs["input"]
              ELSE IF "params" \in DOMAIN kwargs THEN kwargs["params"]
              ELSE NoneV
        c0 == IF "context" \in DOMAIN kwargs THEN kwargs["context"] ELSE NoneV
        positional == a0 = NoneV /\ Len(args) > 0
        a1 == IF ~positional THEN a0
              ELSE IF args[1].t = "dict" THEN args[1]
              ELSE IF Len(args) > 1
                   THEN IF args[2].t = "model" THEN DictV(args[2].m) ELSE args[2]
                   ELSE a0
        c1 == IF ~positional THEN c0
              ELSE IF args[1].t = "dict"
                   THEN IF Len(args) > 1 THEN args[2] ELSE c0
                   ELSE args[1]
        a2 == IF a1 = NoneV THEN DictV(EmptyMap) ELSE a1
        a3 == CASE a2.t = "dict" -> a2.m
                [] a2.t = "model" -> a2.m
                [] a2.t = "pairs" -> a2.m
                [] OTHER -> "value" :> a2.t
    IN [arguments |-> a3, context |-> c1]

\* mcp_handler as far as the await of the tool handler
McpHandlerStart(reg, args, kwargs) ==
    LET e == ExtractInvocationPayload(args, kwargs)
        cls == ToolSpecs[reg.spec].input_model
        v == Validate(cls, e.arguments)
        context_payload == IF e.context.t = "dict" THEN e.context ELSE NoneV
        iv == [Received("mcp_handler", reg.name, reg.spec, DictV(e.arguments))
                 EXCEPT !.call = HostCall(args, kwargs)]
    IN IF v.valid
       THEN CallHandler(iv, reg.spec, v.model, context_payload)
       ELSE InputRefused(iv, cls)

\* fastmcp_handler as far as the await of the tool handler
FastMcpHandlerStart(reg, input_data) ==
    LET cls == ToolSpecs[reg.spec].input_model
        v == ValidateValue(cls, input_data)
        iv == Received("fastmcp_handler", reg.name, reg.spec, input_data)
    IN IF v.valid
       THEN CallHandler(iv, reg.spec, v.model, NoneV)
       ELSE InputRefused(iv, cls)

\* the call of fastmcp_handler(input_data): one argument, positional or by its
\* name, is bound; any other call is a TypeError before the body runs
FastMcpHandlerCall(reg, args, kwargs) ==
    LET binds == /\ Len(args) + Cardinality(DOMAIN kwargs) = 1
                 /\ Len(args) = 1 \/ "input_data" \in DOMAIN kwargs
        input_data == IF Len(args) = 1 THEN args[1] ELSE kwargs["input_data"]
    IN IF binds
       THEN [FastMcpHandlerStart(reg, input_data) EXCEPT
               !.call = HostCall(args, kwargs)]
       ELSE [Received("fastmcp_handler", reg.name, reg.spec, NoneV) EXCEPT
               !.call = HostCall(args, kwargs),
               !.pc = "raised",
               !.error = Failure("TypeError", "call", "fastmcp_handler()", None),
               !.trace = @ \o <<"raised">>]

\* an exception of the tool handler leaves the host's handler as it is
HandlerErrorPropagates(iv, result) ==
    [iv EXCEPT !.pc = "raised",
               !.error = Failure(result.type, "handler", result.msg, None),
               !.trace = @ \o <<"raised">>]

HostReturn(iv, value) ==
    [iv EXCEPT !.pc = "returned", !.returned = value,
               !.trace = @ \o <<"validating output", "returned">>]

\* mcp_handler from the completion of the tool handler on
McpHandlerFinish(iv, result) ==
    LET i1 == [iv EXCEPT !.result = result] IN
    IF result.kind = "raise"
    THEN HandlerErrorPropagates(i1, result)
    ELSE IF result.value.t = "model"
         THEN HostReturn(i1, DictV(result.value.m))
         ELSE LET v == ValidateValue(ToolSpecs[iv.spec].output_model, result.value) IN
              IF v.valid
              THEN HostReturn(i1, DictV(ModelDump(v.model)))
              ELSE OutputRefused(i1)

\* fastmcp_handler from the completion of the tool handler on
FastMcpHandlerFinish(iv, result) ==
    LET i1 == [iv EXCEPT !.result = result] IN
    IF result.kind = "raise"
    THEN HandlerErrorPropagates(i1, result)
    ELSE IF result.value.t = "model"
         THEN HostReturn(i1, result.value)
         ELSE LET v == ValidateValue(ToolSpecs[iv.spec].output_model, result.value) IN
              IF v.valid
              THEN HostReturn(i1, ModelV(v.model))
              ELSE OutputRefused(i1)

\* the context values a host passes
HostContexts == {NoneV, DictV("user" :> "str"), ObjectV}

\* the host's own arguments model, carrying the mapping m
ArgumentsModel(m) == [t |-> "model", cls |-> "Arguments", m |-> m]

CallShape(args, kwargs) == [args |-> args, kwargs |-> kwargs]

\* the ways a host calls mcp_handler with the arguments m and the context ctx
CallShapes(m, ctx) ==
    {CallShape(<<>>, EmptyMap),
     CallShape(<<DictV(m)>>, EmptyMap),
     CallShape(<<DictV(m), ctx>>, EmptyMap),
     CallShape(<<ctx, DictV(m)>>, EmptyMap),
     CallShape(<<ObjectV, ArgumentsModel(m)>>, EmptyMap),
     CallShape(<<ObjectV, IntV>>, EmptyMap),
     CallShape(<<ArgumentsModel(m)>>, EmptyMap),
     CallShape(<<>>, "arguments" :> DictV(m)),
     CallShape(<<>>, ("arguments" :> DictV(m)) @@ ("context" :> ctx)),
     CallShape(<<>>, ("input" :> DictV(m)) @@ ("context" :> ctx)),
     CallShape(<<>>, "params" :> DictV(m)),
     CallShape(<<>>, "arguments" :> ArgumentsModel(m)),
     CallShape(<<>>, "arguments" :> PairsV(m)),
     CallShape(<<>>, ("arguments" :> NoneV) @@ ("input" :> DictV(m))),
     CallShape(<<ctx>>, "params" :> DictV(m))}

\* the ways a FastMCP server calls the function given to add_tool: with the
\* arguments dict, with the validated instance of the annotated model, or with
\* the parameter by name
FastMcpShapes(cls, m) ==
    LET v == Validate(cls, m) IN
    {CallShape(<<DictV(m)>>, EmptyMap),
     CallShape(<<>>, "input_data" :> DictV(m))}
        \cup (IF v.valid THEN {CallShape(<<ModelV(v.model)>>, EmptyMap)} ELSE {})

----------------------------------------------------------------------------
(* server/tool_loader.py: load_tools *)

\* the names an entry of settings.enabled_tools can have; tools/ has no
\* module calendar
EntryNames == {"weather", "slack_post_message", "calendar"}

\* the config mappings of the entries
EntryConfigs == {EmptyMap, "api_key" :> "str", "token" :> "str"}

\* a ToolToggle under its name
Entries == [name : EntryNames, enabled : BOOLEAN, config : EntryConfigs]

\* settings.enabled_tools: a dict, so no name twice, in insertion order
SettingsOf(n) ==
    {s \in [1..n -> Entries] :
        \A i, j \in 1..n : s[i].name = s[j].name => i = j}

EnabledTools == UNION {SettingsOf(n) : n \in 0..MaxEntries}

\* _import_tool_factory: the contract that build_tool of the module
\* ai_assistant_hub.tools.<name> makes, 0 when the import fails, and the
\* config model it validates raw_config with
ToolFactory(name) ==
    CASE name = "weather" -> [spec |-> 1, config_model |-> "WeatherConfig"]
      [] name = "slack_post_message" -> [spec |-> 2, config_model |-> "SlackConfig"]
      [] OTHER -> [spec |-> 0, config_model |-> None]

IdleLoad ==
    [pc |-> "idle", settings |-> <<>>, events |-> <<>>, error |-> NoError]

LoadEvent(op, i, e) ==
    [op |-> op, entry |-> i, name |-> e.name, config |-> e.config]

LoadRaised(ld, type, kind) ==
    [ld EXCEPT !.pc = "raised", !.error = [type |-> type, kind |-> kind]]

\* a loader that logs an entry without a module and goes on
LoadEntryLenient(acc, i, e, h) ==
    IF ~e.enabled
    THEN [acc EXCEPT !.load.events = Append(@, LoadEvent("skip", i, e))]
    ELSE LET factory == ToolFactory(e.name)
             a1 == [acc EXCEPT !.load.events = Append(@, LoadEvent("import", i, e))]
         IN IF factory.spec = 0
            THEN a1
            ELSE LET a2 == [a1 EXCEPT
                              !.load.events = Append(@, LoadEvent("build", i, e))]
                 IN IF ~Validate(factory.config_model, e.config).valid
                    THEN [a2 EXCEPT
                            !.load = LoadRaised(@, "ValidationError",
                                                factory.config_model)]
                    ELSE LET st == ServerRegisterTool(a2.st, factory.spec, h)
                             e1 == st.regLog[Len(st.regLog)].error
                             a3 == [a2 EXCEPT
                                      !.st = st,
                                      !.load.events =
                                          Append(@, LoadEvent("register", i, e))]
                         IN IF e1 # NoError
                            THEN [a3 EXCEPT
                                    !.load = LoadRaised(@, e1.type, e1.kind)]
                            ELSE a3

\* one pass through the body of the for loop of load_tools
LoadEntry(acc, i, e, h) ==
    IF ~e.enabled
    THEN [acc EXCEPT !.load.events = Append(@, LoadEvent("skip", i, e))]
    ELSE LET factory == ToolFactory(e.name)
             a1 == [acc EXCEPT !.load.events = Append(@, LoadEvent("import", i, e))]
         IN IF factory.spec = 0
            THEN [a1 EXCEPT
                    !.load = LoadRaised(@, "ConfigurationError",
                                        "Tool module not found")]
            ELSE LET a2 == [a1 EXCEPT
                              !.load.events = Append(@, LoadEvent("build", i, e))]
                 IN IF ~Validate(factory.config_model, e.config).valid
                    THEN [a2 EXCEPT
                            !.load = LoadRaised(@, "ValidationError",
                                                factory.config_model)]
                    ELSE LET st == ServerRegisterTool(a2.st, factory.spec, h)
                             e1 == st.regLog[Len(st.regLog)].error
                             a3 == [a2 EXCEPT
                                      !.st = st,
                                      !.load.events =
                                          Append(@, LoadEvent("register", i, e))]
                         IN IF e1 # NoError
                            THEN [a3 EXCEPT
                                    !.load = LoadRaised(@, e1.type, e1.kind)]
                            ELSE a3

\* the for loop from entry i on: an exception ends it
RECURSIVE LoadEntries(_, _, _)
LoadEntries(acc, i, h) ==
    IF acc.load.pc = "raised"
    THEN acc
    ELSE IF i > Len(acc.load.settings)
         THEN [acc EXCEPT !.load.pc = "done"]
         ELSE LoadEntries(LoadEntry(acc, i, acc.load.settings[i], h), i + 1, h)

\* load_tools(server, settings=settings)
LoadTools ==
    /\ load.pc = "idle"
    /\ \E settings \in EnabledTools :
          LET acc == LoadEntries(
                        [st |-> [tools |-> tools, hostTools |-> hostTools,
                                 regLog |-> regLog],
                         load |-> [IdleLoad EXCEPT !.pc = "loading",
                                                   !.settings = settings]],
                        1, host)
          IN /\ load' = acc.load
             /\ tools' = acc.st.tools
             /\ hostTools' = acc.st.hostTools
             /\ regLog' = acc.st.regLog
    /\ UNCHANGED <<host, inv, run>>
    /\ UNCHANGED httpVars

----------------------------------------------------------------------------
(* tools/weather.py, tools/github_issues.py: the handlers *)

\* str.lower() on the strings of the model
Lower(s) ==
    CASE s = "Metric" -> "metric"
      [] s = "IMPERIAL" -> "imperial"
      [] s = "Closed" -> "closed"
      [] s = "ALL" -> "all"
      [] OTHER -> s

\* payload.units of a validated WeatherInput
UnitsValues == {"metric", "imperial", "Metric", "IMPERIAL", "kelvin", "standard", ""}

\* config.api_key of the adapter
ApiKeys == {"", "key"}

\* payload.state of a validated GitHubIssuesInput
StateValues == {None, "", "open", "Closed", "ALL", "merged"}

Owners == {"octocat"}

Repos == {"hello", "spoon"}

NoPayload ==
    [location |-> None, units |-> None, owner |-> None, repo |-> None,
     state |-> None]

WeatherPayloads ==
    {[NoPayload EXCEPT !.location = "Paris", !.units = u] : u \in UnitsValues}

GitHubPayloads ==
    {[NoPayload EXCEPT !.owner = o, !.repo = r, !.state = st] :
        o \in Owners, r \in Repos, st \in StateValues}

NoRunError == [type |-> None, msg |-> <<>>, cause |-> NoOutcome]

\* an exception with its message, as the parts the message is put together
\* from, and the transport error it was raised from
RunError(type, msg, cause) == [type |-> type, msg |-> msg, cause |-> cause]

\* a tool handler: which, with what payload and api key, where it is
\* (at: the adapter call it awaits), the client.request calls it made, what
\* those ended with, and its return value or exception
IdleRun ==
    [pc |-> "idle", tool |-> None, payload |-> NoPayload, api_key |-> None,
     at |-> None, requests |-> <<>>, replies |-> <<>>, value |-> None,
     error |-> NoRunError]

ReasonPhrase(status) ==
    CASE status = 200 -> "OK"
      [] status = 403 -> "Forbidden"
      [] status = 404 -> "Not Found"
      [] status = 500 -> "Internal Server Error"
      [] OTHER -> ""

\* str(exc) of the ToolExecutionError that request() raised, in its parts
Message(outcome) ==
    CASE outcome.kind = "API request failed" ->
           <<"API request failed: ", ToString(outcome.status), " ",
             ReasonPhrase(outcome.status), ". Details: ", outcome.detail>>
      [] outcome.kind = "Request failed after" ->
           <<"Request failed after ", ToString(outcome.attempts), " attempts: ",
             outcome.cause>>
      [] OTHER -> <<"Unexpected HTTP error: ", outcome.cause>>

\* `token in text` for the texts of the model
Contains(text, token) ==
    \/ text = token
    \/ text = "<html>404 Not Found</html>" /\ token \in {"404", "Not Found"}

\* `token in message`, the message being the concatenation of its parts
Mentions(message, token) ==
    \E k \in DOMAIN message : Contains(message[k], token)

RunRaised(r, error) == [r EXCEPT !.pc = "raised", !.error = error]

\* the handler awaits self.client.request(method, path)
RunRequest(r, at, method, path) ==
    [r EXCEPT !.pc = "awaiting", !.at = at,
              !.requests = Append(@, [method |-> method, path |-> path])]

\* WeatherAdapter.fetch_weather as far as the await of client.request
FetchWeatherStart(r, units) ==
    IF r.api_key = ""
    THEN RunRaised(r, RunError("ToolExecutionError",
            <<"Weather API key not configured. Set TOOL_WEATHER_CONFIG__API_KEY">>,
            NoOutcome))
    ELSE RunRequest(r, "fetch_weather", "GET", <<"/weather", units>>)

\* a weather handler that leaves the units to the upstream API
WeatherHandlerStartUnchecked(payload, api_key) ==
    FetchWeatherStart([IdleRun EXCEPT !.tool = "weather", !.payload = payload,
                                      !.api_key = api_key],
                      Lower(payload.units))

\* the weather handler as far as its await
WeatherHandlerStart(payload, api_key) ==
    LET r == [IdleRun EXCEPT !.tool = "weather", !.payload = payload,
                             !.api_key = api_key]
        units == Lower(payload.units)
    IN IF units \notin {"metric", "imperial"}
       THEN RunRaised(r, RunError("ToolExecutionError",
               <<"Invalid unit system. Choose 'metric' or 'imperial'.">>,
               NoOutcome))
       ELSE FetchWeatherStart(r, units)

\* fetch_weather and the handler from the completion of client.request on:
\* the error goes up as it is, a JSON object is read with .get, and a JSON
\* array has no .get
WeatherHandlerFinish(r, outcome) ==
    LET r1 == [r EXCEPT !.replies = Append(@, outcome)] IN
    IF outcome.tag = "error"
    THEN RunRaised(r1, RunError(outcome.type, Message(outcome), outcome))
    ELSE IF outcome.value = "dict"
         THEN [r1 EXCEPT !.pc = "returned", !.value = "conditions"]
         ELSE RunRaised(r1, RunError("AttributeError", <<"get">>, NoOutcome))

RepoPath(owner, repo) == <<"/repos/", owner, "/", repo>>

IssuesPath(owner, repo) == <<"/repos/", owner, "/", repo, "/issues">>

\* the github handler as far as its first await
GitHubHandlerStart(payload) ==
    LET r == [IdleRun EXCEPT !.tool = "github_issues", !.payload = payload]
        state == Lower(IF payload.state \in {None, ""} THEN "open"
                       ELSE payload.state)
    IN IF state \notin {"open", "closed", "all"}
       THEN RunRaised(r, RunError("ToolExecutionError",
               <<"Invalid issue state. Choose 'open', 'closed', or 'all'.">>,
               NoOutcome))
       ELSE RunRequest(r, "ensure_repository", "GET",
                       RepoPath(payload.owner, payload.repo))

\* an ensure_repository that lets the transport's error through
EnsureRepositoryReraises(outcome, owner, repo) ==
    RunError(outcome.type, Message(outcome), outcome)

\* the except clause of ensure_repository
EnsureRepositoryRaises(outcome, owner, repo) ==
    LET message == Message(outcome) IN
    IF Mentions(message, "404") \/ Mentions(message, "Not Found")
    THEN RunError("ToolExecutionError",
            <<"Repository '", owner, "/", repo,
              "' not found. Confirm owner and repository name.">>, outcome)
    ELSE IF Mentions(message, "403") \/ Mentions(message, "Forbidden")
         THEN RunError("ToolExecutionError",
                 <<"Repository '", owner, "/", repo,
                   "' is private or inaccessible. Provide a GitHub token via TOOL_GITHUB_ISSUES_CONFIG__TOKEN">>,
                 outcome)
         ELSE RunError(outcome.type, Message(outcome), outcome)

\* the github handler from the completion of a client.request on
GitHubHandlerResume(r, outcome) ==
    LET r1 == [r EXCEPT !.replies = Append(@, outcome)]
        owner == r.payload.owner
        repo == r.payload.repo
    IN IF r.at = "ensure_repository"
       THEN IF outcome.tag = "error"
            THEN RunRaised(r1, EnsureRepositoryRaises(outcome, owner, repo))
            ELSE RunRequest(r1, "list_issues", "GET", IssuesPath(owner, repo))
       ELSE IF outcome.tag = "error"
            THEN RunRaised(r1, RunError(outcome.type, Message(outcome), outcome))
            ELSE IF outcome.value = "dict"
                 THEN [r1 EXCEPT !.pc = "returned", !.value = "issues"]
                 ELSE RunRaised(r1, RunError("TypeError", <<"in">>, NoOutcome))

\* the request() call that a handler awaits
HandlerCallSlot == CHOOSE c \in Calls : \A d \in Calls : c <= d

\* what a step of a handler does to the client's calls: a new request() when
\* the handler awaits one, none otherwise
RequestsAfter(r) ==
    [req EXCEPT ![HandlerCallSlot] =
       IF r.pc = "awaiting" THEN LoopHead(IdleCall, client.retries) ELSE IdleCall]

\* the weather handler is called with a validated payload
WeatherHandler ==
    /\ run.pc = "idle"
    /\ \E payload \in WeatherPayloads, api_key \in ApiKeys :
          LET r == WeatherHandlerStart(payload, api_key) IN
          /\ run' = r
          /\ req' = RequestsAfter(r)
    /\ UNCHANGED <<config, client, load>>
    /\ UNCHANGED serverVars

\* the github handler is called with a validated payload
GitHubHandler ==
    /\ run.pc = "idle"
    /\ \E payload \in GitHubPayloads :
          LET r == GitHubHandlerStart(payload) IN
          /\ run' = r
          /\ req' = RequestsAfter(r)
    /\ UNCHANGED <<config, client, load>>
    /\ UNCHANGED serverVars

\* the awaited client.request has returned or raised, and the handler goes on
HandlerResumes ==
    /\ run.pc = "awaiting"
    /\ req[HandlerCallSlot].pc \in {"returned", "raised"}
    /\ LET outcome == req[HandlerCallSlot].outcome
           r == IF run.tool = "weather"
                THEN WeatherHandlerFinish(run, outcome)
                ELSE GitHubHandlerResume(run, outcome)
       IN /\ run' = r
          /\ req' = RequestsAfter(r)
    /\ UNCHANGED <<config, client, load>>
    /\ UNCHANGED serverVars

----------------------------------------------------------------------------
(* The dispatcher of a server whose tools are loaded *)

Idle == inv.pc = "idle"

Finished == inv.pc \in {"responded", "returned", "raised"}

\* AIHubMCPServer.invoke(request)
ServerInvoke ==
    /\ Idle
    /\ \E request \in Requests : inv' = ServerInvokeStart(tools, request)
    /\ UNCHANGED <<tools, host, hostTools, regLog>>
    /\ UNCHANGED httpVars
    /\ UNCHANGED toolVars

\* ToolSpec.invoke(request) called on a contract itself, which does not read
\* request.tool
DirectInvoke ==
    /\ Idle
    /\ \E id \in SpecIds :
          \E request \in {r \in Requests : r.tool = ToolSpecs[id].name} :
             inv' = SpecInvokeStart(id, request, "ToolSpec.invoke")
    /\ UNCHANGED <<tools, host, hostTools, regLog>>
    /\ UNCHANGED httpVars
    /\ UNCHANGED toolVars

\* the host calls a registered mcp_handler
CallMcpHandler ==
    /\ Idle
    /\ \E i \in DOMAIN hostTools :
          /\ hostTools[i].handler = "mcp_handler"
          /\ \E m \in InputMappings, ctx \in HostContexts :
                \E shape \in CallShapes(m, ctx) :
                   inv' = McpHandlerStart(hostTools[i], shape.args, shape.kwargs)
    /\ UNCHANGED <<tools, host, hostTools, regLog>>
    /\ UNCHANGED httpVars
    /\ UNCHANGED toolVars

\* the host calls a registered fastmcp_handler, the way FastMCP does or in one
\* of the shapes of the other hosts
CallFastMcpHandler ==
    /\ Idle
    /\ \E i \in DOMAIN hostTools :
          /\ hostTools[i].handler = "fastmcp_handler"
          /\ \E m \in InputMappings, ctx \in HostContexts :
                \E shape \in CallShapes(m, ctx) \cup
                       FastMcpShapes(ToolSpecs[hostTools[i].spec].input_model, m) :
                   inv' = FastMcpHandlerCall(hostTools[i], shape.args, shape.kwargs)
    /\ UNCHANGED <<tools, host, hostTools, regLog>>
    /\ UNCHANGED httpVars
    /\ UNCHANGED toolVars

\* the awaited tool handler completes
HandlerCompletes ==
    /\ inv.pc = "executing"
    /\ \E result \in HandlerResults(inv.spec, inv.payload) :
          inv' = CASE inv.entry = "mcp_handler" -> McpHandlerFinish(inv, result)
                   [] inv.entry = "fastmcp_handler" -> FastMcpHandlerFinish(inv, result)
                   [] OTHER -> InvokeFinish(inv, result)
    /\ UNCHANGED <<tools, host, hostTools, regLog>>
    /\ UNCHANGED httpVars
    /\ UNCHANGED toolVars

\* the caller has its response, return value or exception; the next call starts
\* from nothing of this one
CallerResumes ==
    /\ Finished
    /\ inv' = IdleInvocation
    /\ UNCHANGED <<tools, host, hostTools, regLog>>
    /\ UNCHANGED httpVars
    /\ UNCHANGED toolVars

\* a FastMCP server: add_tool(fn, name=..., description=...)
FastMCPHost ==
    [NoHost EXCEPT !.mcp_types = "Tool raises", !.add_tool = TRUE, !.tool = "ok"]

\* a server whose add_tool takes keyword arguments only
KeywordHost ==
    [NoHost EXCEPT !.mcp_types = "Tool", !.add_tool = TRUE,
                   !.add_fn_first = "TypeError"]

\* a server that has the tool decorator alone
DecoratorHost == [NoHost EXCEPT !.mcp_types = "Tool", !.tool = "ok"]

\* a server object without any registration function
BareHost == [NoHost EXCEPT !.mcp_types = "Tool"]

DispatchHosts == {FastMCPHost, KeywordHost, DecoratorHost, BareHost}

\* the state after register_tool was called for order[1..n]
RECURSIVE AfterRegistering(_, _, _)
AfterRegistering(order, n, h) ==
    IF n = 0
    THEN [tools |-> <<>>, hostTools |-> <<>>, regLog |-> <<>>]
    ELSE ServerRegisterTool(AfterRegistering(order, n - 1, h), order[n], h)

LoadOrders == UNION {[1..n -> SpecIds] : n \in 0..MaxLoad}

InitDispatch ==
    /\ config = [retries |-> 0, backoff_factor |-> 1]
    /\ client = DefaultClient
    /\ req = [c \in Calls |-> IdleCall]
    /\ host \in DispatchHosts
    /\ \E order \in LoadOrders :
          LET st == AfterRegistering(order, Len(order), host) IN
          /\ tools = st.tools
          /\ hostTools = st.hostTools
          /\ regLog = st.regLog
    /\ inv = IdleInvocation
    /\ load = IdleLoad
    /\ run = IdleRun

NextDispatch ==
    \/ ServerInvoke
    \/ DirectInvoke
    \/ CallMcpHandler
    \/ CallFastMcpHandler
    \/ HandlerCompletes
    \/ CallerResumes

SpecDispatch == InitDispatch /\ [][NextDispatch]_vars

----------------------------------------------------------------------------
(* The HTTP client on its own, and the loading of the tools *)

InitHTTP ==
    /\ config \in [retries : RetriesArgs, backoff_factor : BackoffArgs]
    /\ client = ClientInit(config.retries, config.backoff_factor)
    /\ req = [c \in Calls |-> IdleCall]
    /\ tools = <<>>
    /\ host = NoHost
    /\ hostTools = <<>>
    /\ regLog = <<>>
    /\ inv = IdleInvocation
    /\ load = IdleLoad
    /\ run = IdleRun

NextHTTP ==
    \E c \in Calls :
        \/ SequentialStart(c)
        \/ AttemptCompletes(c)
        \/ SleepCompletes(c)

SpecHTTP == InitHTTP /\ [][NextHTTP]_vars

InitCatalog ==
    /\ config = [retries |-> 0, backoff_factor |-> 1]
    /\ client = DefaultClient
    /\ req = [c \in Calls |-> IdleCall]
    /\ tools = <<>>
    /\ host \in {h \in Hosts : Canonical(h)}
    /\ hostTools = <<>>
    /\ regLog = <<>>
    /\ inv = IdleInvocation
    /\ load = IdleLoad
    /\ run = IdleRun

NextCatalog ==
    \E id \in SpecIds :
        \/ Register(id)
        \/ RegisterTool(id)

SpecCatalog == InitCatalog /\ [][NextCatalog]_vars

\* several request() calls in flight on one client: tasks of one event loop,
\* which run one at a time between their awaits
ConcurrentCalls == 1..NumConcurrent

\* the retries and backoff_factor of the shared client: none or one retry,
\* without or with a delay of 0.5 s
ConcurrentConfigs == [retries : {0, 1}, backoff_factor : {0, 1}]

InitConcurrent ==
    /\ config \in ConcurrentConfigs
    /\ client = ClientInit(config.retries, config.backoff_factor)
    /\ req = [c \in ConcurrentCalls |-> IdleCall]
    /\ tools = <<>>
    /\ host = NoHost
    /\ hostTools = <<>>
    /\ regLog = <<>>
    /\ inv = IdleInvocation
    /\ load = IdleLoad
    /\ run = IdleRun

NextConcurrent ==
    \E c \in ConcurrentCalls :
        \/ StartRequest(c)
        \/ AttemptCompletes(c)
        \/ SleepCompletes(c)

SpecConcurrent == InitConcurrent /\ [][NextConcurrent]_vars

\* a tool handler running on the client of its adapter
InitTools ==
    /\ config \in ConcurrentConfigs
    /\ client = ClientInit(config.retries, config.backoff_factor)
    /\ req = [c \in Calls |-> IdleCall]
    /\ tools = <<>>
    /\ host = NoHost
    /\ hostTools = <<>>
    /\ regLog = <<>>
    /\ inv = IdleInvocation
    /\ load = IdleLoad
    /\ run = IdleRun

NextTools ==
    \/ WeatherHandler
    \/ GitHubHandler
    \/ HandlerResumes
    \/ \E c \in Calls : AttemptCompletes(c)
    \/ \E c \in Calls : SleepCompletes(c)

SpecTools == InitTools /\ [][NextTools]_vars

\* a process that builds a server on a host object and loads the tools of its
\* settings, and whose host then calls the handlers
InitLoad ==
    /\ config = [retries |-> 0, backoff_factor |-> 1]
    /\ client = DefaultClient
    /\ req = [c \in Calls |-> IdleCall]
    /\ host \in DispatchHosts
    /\ tools = <<>>
    /\ hostTools = <<>>
    /\ regLog = <<>>
    /\ inv = IdleInvocation
    /\ load = IdleLoad
    /\ run = IdleRun

NextLoad == LoadTools

SpecLoad == InitLoad /\ [][NextLoad]_vars

----------------------------------------------------------------------------
(* Claims about the HTTP client *)

AllTransient(results, n) ==
    \A i \in 1..n : results[i].kind = "transient"

IsSuccess(res) ==
    res.kind = "response" /\ res.status < 400 /\ Json(res.body) # None

\* C1: a client configured with retries r makes at most max(r,0)+1 attempts;
\* max(r,0)+1 consecutive transient failures end in the error that reports
\* exactly max(r,0)+1 attempts and the cause of the last attempt, and only
\* they do; max(r,0) transient failures followed by a success return that
\* attempt's parsed body.
C1_RetryBudget ==
    \A c \in Calls :
        LET r == req[c]
            budget == Max(config.retries, 0) + 1
            n == Len(r.results)
        IN /\ r.made <= budget
           /\ r.made = n
           /\ (n = budget /\ AllTransient(r.results, n)) =>
                 /\ r.pc = "raised"
                 /\ r.outcome.tag = "error"
                 /\ r.outcome.kind = "Request failed after"
                 /\ r.outcome.attempts = budget
                 /\ r.outcome.cause = r.results[n].cause
           /\ (r.outcome.kind = "Request failed after") =>
                 /\ n = budget
                 /\ AllTransient(r.results, n)
           /\ (n = budget /\ AllTransient(r.results, n - 1)
                    /\ IsSuccess(r.results[n])) =>
                 /\ r.pc = "returned"
                 /\ r.outcome.tag = "value"
                 /\ r.outcome.value = Json(r.results[n].body)

\* three transient failures have used up a budget of two retries
C1_Witness ==
    \E c \in Calls :
        /\ config.retries = 2
        /\ req[c].made = 3
        /\ AllTransient(req[c].results, 3)
        /\ req[c].pc = "raised"

\* C2: an attempt that receives a 4xx/5xx response is the call's last attempt:
\* the call has failed with the terminal status error, and no backoff
\* suspension follows that attempt.
C2_StatusNotRetried ==
    \A c \in Calls :
        LET r == req[c] IN
        \A i \in 1..Len(r.results) :
            (r.results[i].kind = "response" /\ r.results[i].status >= 400) =>
                /\ i = Len(r.results)
                /\ r.made = i
                /\ r.pc = "raised"
                /\ r.outcome.tag = "error"
                /\ r.outcome.kind = "API request failed"
                /\ r.outcome.status = r.results[i].status
                /\ \A j \in 1..Len(r.slept) : r.slept[j].before < i

\* a 404 on the first attempt of a client with retries left
C2_Witness ==
    \E c \in Calls :
        /\ client.retries >= 2
        /\ req[c].made = 1
        /\ req[c].results[1].kind = "response"
        /\ req[c].results[1].status = 404
        /\ req[c].pc = "raised"

\* C10: the suspensions of a call are exactly one before each attempt k >= 1
\* that the call has come to, of backoff_factor * 2^(k-1) (a negative
\* backoff_factor counting as 0), and none at all when that delay is 0: none
\* before attempt 0 and none after the last failed attempt.
C10_Backoff ==
    \A c \in Calls :
        LET r == req[c]
            factor == Max(config.backoff_factor, 0)
            lastK == IF r.pc \in {"attempting", "sleeping"}
                     THEN r.made ELSE r.made - 1
        IN r.slept = IF factor = 0 \/ lastK < 1
                     THEN <<>>
                     ELSE [k \in 1..lastK |->
                             [before |-> k, delay |-> factor * Pow2(k - 1)]]

\* backoff_factor 0.5: the suspension before attempt 3 lasts 2 seconds
C10_Witness ==
    \E c \in Calls :
        /\ config.backoff_factor = 1
        /\ Len(req[c].slept) = 3
        /\ req[c].slept[3] = [before |-> 3, delay |-> 4]
        /\ req[c].pc = "attempting"

----------------------------------------------------------------------------
(* Claims about the catalog *)

NameOf(entry) == ToolSpecs[entry.spec].name

\* the register call log[i] came when its name was already taken
NameTaken(log, i) == \E j \in 1..(i - 1) : NameOf(log[j]) = NameOf(log[i])

\* the items a catalog holds after the calls log[1..n], when every call
\* whose name is taken changes nothing
RECURSIVE FirstRegistrations(_, _)
FirstRegistrations(log, n) ==
    IF n = 0
    THEN <<>>
    ELSE IF NameTaken(log, n)
         THEN FirstRegistrations(log, n - 1)
         ELSE Append(FirstRegistrations(log, n - 1), <<NameOf(log[n]), log[n].spec>>)

DuplicateToolError == [type |-> "ValueError", kind |-> "Tool already registered"]

\* C6: a register call whose name is present fails with the duplicate-tool
\* error, and only such a call does; the catalog holds, in order, the contract
\* registered first under each name, so no name occurs in it twice.
C6_RegisterDuplicate ==
    /\ \A i \in 1..Len(regLog) :
          NameTaken(regLog, i) <=> regLog[i].error = DuplicateToolError
    /\ tools = FirstRegistrations(regLog, Len(regLog))
    /\ \A i, j \in 1..Len(tools) : tools[i][1] = tools[j][1] => i = j

\* the second weather contract was refused; the name still maps to the first
C6_Witness ==
    /\ Len(regLog) = 3
    /\ regLog[1].spec = 1
    /\ regLog[3].spec = 3
    /\ regLog[3].error = DuplicateToolError
    /\ CatalogGet(tools, "weather") = 1
    /\ Len(tools) = 2

----------------------------------------------------------------------------
(* Claims about the dispatcher *)

InvokeEntries == {"AIHubMCPServer.invoke", "ToolSpec.invoke"}

\* the phase a stands before every occurrence of the phase b
Precedes(trace, a, b) ==
    \A k \in 1..Len(trace) :
        trace[k] = b => \E j \in 1..(k - 1) : trace[j] = a

\* C3: an input that fails the tool's input schema never reaches the handler,
\* through invoke or through a handler registered with the host: the call ends
\* with the validation error and no handler call; every handler call there is
\* carries the payload that validation produced, and comes after validation.
C3_InvalidInputNotHandled ==
    inv.spec # 0 =>
        LET v == ValidateValue(ToolSpecs[inv.spec].input_model, inv.input) IN
        /\ (~v.valid /\ inv.error.kind # "call") =>
              /\ inv.called = <<>>
              /\ inv.pc = "raised"
              /\ inv.error.type = "ValidationError"
              /\ inv.result = NoResult
        /\ \A k \in 1..Len(inv.called) :
              /\ v.valid
              /\ inv.called[k].payload = v.model
              /\ inv.called[k].spec = inv.spec
        /\ Len(inv.called) <= 1
        /\ Precedes(inv.trace, "validating input", "executing handler")

\* a registered mcp_handler was called with arguments that lack a required
\* field, and has raised
C3_Witness ==
    /\ inv.entry = "mcp_handler"
    /\ inv.spec = 2
    /\ inv.input = DictV("channel" :> "str")
    /\ inv.pc = "raised"
    /\ inv.called = <<>>

\* C4: when the handler raises ToolExecutionError with message X, invoke does
\* not raise and responds {ok: false, output: {}, error: X}.
C4_ExecutionErrorResponse ==
    (inv.entry \in InvokeEntries /\ inv.result.kind = "raise"
        /\ inv.result.type = "ToolExecutionError") =>
        /\ inv.pc = "responded"
        /\ inv.error = NoFailure
        /\ inv.response =
              [set |-> TRUE, ok |-> FALSE, output |-> EmptyMap,
               error |-> inv.result.msg]

C4_Witness ==
    /\ inv.entry = "AIHubMCPServer.invoke"
    /\ inv.result = HandlerRaises("ToolExecutionError", "X")
    /\ inv.response.set
    /\ inv.response.error = "X"

\* C5: AIHubMCPServer.invoke with a name that is not in the catalog raises the
\* unknown-tool error naming it, before any validation, without a handler call
\* and without a response.
C5_UnknownTool ==
    (inv.entry = "AIHubMCPServer.invoke" /\ ~DictHas(tools, inv.tool)) =>
        /\ inv.pc = "raised"
        /\ inv.error.kind = "Unknown tool"
        /\ inv.error.msg = inv.tool
        /\ inv.called = <<>>
        /\ ~inv.response.set
        /\ inv.trace = <<"received", "raised">>

\* two tools are registered and a third name is asked for
C5_Witness ==
    /\ Len(tools) = 2
    /\ inv.entry = "AIHubMCPServer.invoke"
    /\ inv.tool = "github_issues"
    /\ inv.pc = "raised"

\* C7: in every response of invoke, ok = false comes with an empty output and
\* an error that is set, and ok = true comes without an error.
C7_ResponseShape ==
    inv.response.set =>
        /\ ~inv.response.ok =>
              inv.response.output = EmptyMap /\ inv.response.error # None
        /\ inv.response.ok => inv.response.error = None

\* the handler failed with an empty message: the error is the empty string
C7_Witness ==
    /\ inv.response.set
    /\ ~inv.response.ok
    /\ inv.response.error = ""
    /\ inv.result.kind = "raise"

\* C8: when the handler raises anything but ToolExecutionError, invoke gives no
\* response and raises a ToolExecutionError carrying the message and the cause;
\* an ok = false response comes from a ToolExecutionError of the handler alone.
C8_OtherErrorsPropagate ==
    inv.entry \in InvokeEntries =>
        /\ (inv.result.kind = "raise" /\ inv.result.type # "ToolExecutionError") =>
              /\ inv.pc = "raised"
              /\ ~inv.response.set
              /\ inv.error.type = "ToolExecutionError"
              /\ inv.error.msg = inv.result.msg
              /\ inv.error.cause = inv.result.type
        /\ (inv.response.set /\ ~inv.response.ok) =>
              /\ inv.result.kind = "raise"
              /\ inv.result.type = "ToolExecutionError"

C8_Witness ==
    /\ inv.entry = "AIHubMCPServer.invoke"
    /\ inv.result = HandlerRaises("ValueError", "boom")
    /\ inv.pc = "raised"
    /\ inv.error.cause = "ValueError"

\* the mapping has exactly the fields the model class declares, each of its type
Conforms(cls, mapping) ==
    LET v == Validate(cls, mapping) IN
    v.valid /\ v.model.fields = mapping

\* C9: every ok = true response of invoke, and every value a handler
\* registered with the host returns, is in the output shape the tool declares,
\* and output validation lies between the handler and the response.
C9_OutputShape ==
    inv.spec # 0 =>
        LET cls == ToolSpecs[inv.spec].output_model IN
        /\ (inv.response.set /\ inv.response.ok) =>
              /\ Conforms(cls, inv.response.output)
              /\ Precedes(inv.trace, "validating output", "responded-ok")
        /\ inv.pc = "returned" =>
              /\ Conforms(cls, inv.returned.m)
              /\ inv.returned.t = "model" => inv.returned.cls = cls

----------------------------------------------------------------------------
(* bind_to_server: the order of the registration conventions *)

\* the registration calls bind_to_server can make, richest first, without the
\* add_tool(Tool object, handler) form
Priority == <<"add_tool(fn)", "add_tool(keywords)", "register_tool", "tool">>

\* the place of a convention in the order, 0 for one the order does not have
Position(convention) ==
    IF \E p \in DOMAIN Priority : Priority[p] = convention
    THEN CHOOSE p \in DOMAIN Priority : Priority[p] = convention
    ELSE 0

\* the host object has the function the convention calls
Offers(h, convention) ==
    CASE convention \in {"add_tool(fn)", "add_tool(keywords)", "add_tool(Tool)"} ->
           h.add_tool
      [] convention = "register_tool" -> h.register_tool # "absent"
      [] OTHER -> h.tool # "absent"

\* the calls of register_tool that went as far as bind_to_server
BindEntries == {i \in DOMAIN regLog : regLog[i].bind}

\* C11: bind_to_server tries add_tool(fn, ...), then add_tool with keywords,
\* then register_tool, then the tool decorator, in that order; a convention is
\* tried only after every earlier one the host offers was tried and failed,
\* and none is tried after one succeeded.
C11_PriorityOrder ==
    \A i \in BindEntries :
        LET t == regLog[i].tried IN
        \A k \in DOMAIN t :
            /\ Position(t[k].convention) # 0
            /\ \A p \in 1..(Position(t[k].convention) - 1) :
                  Offers(host, Priority[p]) =>
                      \E j \in 1..(k - 1) :
                          /\ t[j].convention = Priority[p]
                          /\ t[j].outcome # "ok"
            /\ \A j \in 1..(k - 1) :
                  /\ Position(t[j].convention) < Position(t[k].convention)
                  /\ t[j].outcome # "ok"

\* the error of line 143, after the last convention
IncompatibleHostError ==
    [type |-> "RuntimeError", kind |-> "Incompatible MCP server"]

\* C12: when no convention succeeds on a host, bind_to_server raises the
\* incompatible-host error whichever convention failed last and however; it
\* returns normally only after a convention succeeded, and calls no
\* convention twice.
C12_AllFail ==
    \A i \in BindEntries :
        LET t == regLog[i].tried
            e == regLog[i].error
        IN  host.mcp_types # "absent" =>
              /\ (\A k \in DOMAIN t : t[k].outcome # "ok") =>
                    e = IncompatibleHostError
              /\ e = NoError =>
                    /\ t # <<>>
                    /\ t[Len(t)].outcome = "ok"
                    /\ \E k \in DOMAIN hostTools : hostTools[k].spec = regLog[i].spec
              /\ \A j, k \in DOMAIN t :
                    t[j].convention = t[k].convention => j = k

\* C13: a registration call that fails with something other than a TypeError
\* is the last call bind_to_server makes, and bind_to_server fails with that
\* error.
C13_OnlyTypeErrorFallsBack ==
    \A i \in BindEntries :
        LET t == regLog[i].tried IN
        \A k \in DOMAIN t :
            t[k].outcome = "Exception" =>
                /\ k = Len(t)
                /\ regLog[i].error.type = "Exception"

----------------------------------------------------------------------------
(* the handlers registered with the host: the shapes of the host's calls *)

\* C14: a handler that bind_to_server registered, through whichever
\* convention, takes every call shape of the host, has the arguments as a
\* mapping, validates them against the input model, and hands the tool
\* handler the context that the call carried (a mapping, or none).
C14_CallShapes ==
    inv.call.made =>
        LET e == ExtractInvocationPayload(inv.call.args, inv.call.kwargs) IN
        /\ inv.error.kind # "call"
        /\ inv.input.t \in {"dict", "model"}
        /\ \E k \in DOMAIN inv.trace : inv.trace[k] = "validating input"
        /\ \A k \in DOMAIN inv.called :
              e.context.t \in {"dict", "None"} =>
                  inv.called[k].context = e.context

----------------------------------------------------------------------------
(* load_tools *)

\* entry i of the settings is enabled and names no tool module
Unlocatable(i) ==
    load.settings[i].enabled /\ ToolFactory(load.settings[i].name).spec = 0

\* an entry before i made load_tools raise
FailedBefore(i) ==
    /\ load.pc = "raised"
    /\ \E k \in DOMAIN load.events : load.events[k].entry < i
    /\ load.events[Len(load.events)].entry < i

\* C15: load_tools takes the entries in order; a disabled entry is never
\* looked up, built, registered or bound; an enabled entry is looked up by its
\* name, built with its own config and registered; at the first enabled entry
\* without a factory load_tools raises ConfigurationError, and no entry after
\* it is registered.
C15_LoadTools ==
    load.pc # "idle" =>
        LET s == load.settings
            ev == load.events
        IN  /\ \A j, k \in DOMAIN ev : j < k => ev[j].entry <= ev[k].entry
            /\ \A k \in DOMAIN ev :
                  /\ ev[k].name = s[ev[k].entry].name
                  /\ ev[k].config = s[ev[k].entry].config
                  /\ (ev[k].op = "skip") = ~s[ev[k].entry].enabled
            /\ \A k \in DOMAIN regLog :
                  \E i \in DOMAIN s :
                      /\ s[i].enabled
                      /\ s[i].name = ToolSpecs[regLog[k].spec].name
                      /\ \E j \in DOMAIN ev :
                            ev[j].op = "register" /\ ev[j].entry = i
            /\ \A k \in DOMAIN tools :
                  \E i \in DOMAIN s : s[i].enabled /\ s[i].name = tools[k][1]
            /\ \A k \in DOMAIN hostTools :
                  \E i \in DOMAIN s : s[i].enabled /\ s[i].name = hostTools[k].name
            /\ \A i \in DOMAIN s :
                  Unlocatable(i) =>
                      /\ load.pc = "raised"
                      /\ load.error.type = "ConfigurationError" \/ FailedBefore(i)
                      /\ \A k \in DOMAIN ev :
                            ev[k].op = "register" => ev[k].entry < i
                      /\ \A k \in DOMAIN ev : ev[k].entry <= i
            /\ load.pc = "done" =>
                  \A i \in DOMAIN s :
                      s[i].enabled =>
                          \E k \in DOMAIN regLog :
                              /\ ToolSpecs[regLog[k].spec].name = s[i].name
                              /\ regLog[k].error = NoError

\* the second entry of the settings has no module: the first is registered,
\* and load_tools has raised ConfigurationError
C15_Witness ==
    /\ load.pc = "raised"
    /\ load.error.type = "ConfigurationError"
    /\ Len(load.settings) = 2
    /\ Unlocatable(2)
    /\ Len(regLog) = 1
    /\ Len(hostTools) = 1

----------------------------------------------------------------------------
(* request(): a body that cannot be parsed *)

\* the attempt brought a response with a success status and a body that is
\* no JSON
Unparseable(res) ==
    res.kind = "response" /\ res.status < 400 /\ Json(res.body) = None

\* C16: an attempt of request() that receives a success status with a body
\* that cannot be parsed is the call's last attempt, whatever the retry budget,
\* and the call raises a ToolExecutionError that is not the one of exhausted
\* retries.
C16_ParseErrorNotRetried ==
    \A c \in Calls :
        \A i \in DOMAIN req[c].results :
            Unparseable(req[c].results[i]) =>
                /\ i = Len(req[c].results)
                /\ req[c].made = i
                /\ req[c].pc = "raised"
                /\ req[c].outcome.tag = "error"
                /\ req[c].outcome.type = "ToolExecutionError"
                /\ req[c].outcome.kind = "Unexpected HTTP error"
                /\ req[c].outcome.kind # ExhaustedError(client.retries,
                                                        req[c].last_error).kind
                /\ req[c].slept = <<>> \/
                      req[c].slept[Len(req[c].slept)].before < i

\* a client with retries left got an unparseable body on the first attempt
C16_Witness ==
    \E c \in Calls :
        /\ client.retries = MaxRetries
        /\ Len(req[c].results) = 1
        /\ Unparseable(req[c].results[1])
        /\ req[c].pc = "raised"

----------------------------------------------------------------------------
(* request() calls in flight together *)

\* the request a call would be at after the first n of the attempt results
\* `results`, had it run alone on a client with these retries and backoff
RECURSIVE Replay(_, _, _, _)
Replay(results, n, retries, backoff_factor) ==
    IF n = 0
    THEN LoopHead(IdleCall, retries)
    ELSE LET before == Replay(results, n - 1, retries, backoff_factor)
             woken == IF before.pc = "sleeping"
                      THEN LoopHead(before, retries)
                      ELSE before
         IN OnAttempt(woken, results[n], retries, backoff_factor)

\* C17: with several request() calls in flight on one client, under every
\* interleaving each call's attempt counter, last error and outcome are those
\* of the call run alone on its own attempt results; each call makes at most
\* retries + 1 attempts; the client's configuration stays as constructed.
C17_CallsIsolated ==
    /\ client = ClientInit(config.retries, config.backoff_factor)
    /\ \A c \in DOMAIN req :
          req[c].pc # "idle" =>
              LET alone == Replay(req[c].results, Len(req[c].results),
                                  client.retries, client.backoff_factor)
              IN /\ req[c].made = Len(req[c].results)
                 /\ req[c].made <= client.retries + 1
                 /\ \/ req[c] = alone
                    \/ alone.pc = "sleeping" /\ req[c] = LoopHead(alone, client.retries)

\* two calls in flight at once, each after one failed attempt: one in its
\* backoff sleep, the other at its second attempt
C17_Witness ==
    /\ Cardinality(DOMAIN req) >= 2
    /\ req[1].pc = "sleeping"
    /\ req[1].made = 1
    /\ req[2].pc = "attempting"
    /\ req[2].made = 1
    /\ req[2].attempt = 1

\* C18: while a call is suspended in the backoff sleep, every other call in
\* flight can take its next step.
C18_BackoffDoesNotBlock ==
    \A c, d \in DOMAIN req :
        (c # d /\ req[c].pc = "sleeping" /\ InFlight(d)) =>
            ENABLED (AttemptCompletes(d) \/ SleepCompletes(d))

\* one call sleeps while another awaits the response of its first attempt
C18_Witness ==
    \E c, d \in DOMAIN req :
        /\ c # d
        /\ req[c].pc = "sleeping"
        /\ req[d].pc = "attempting"
        /\ req[d].made = 0

----------------------------------------------------------------------------
(* the handlers of tools/ *)

\* the units values that are metric or imperial in some letter case
AcceptedUnits == {"metric", "imperial", "Metric", "IMPERIAL"}

\* C19: a weather invocation whose units are not metric or imperial, in any
\* letter case, fails with a ToolExecutionError that names the two allowed
\* values, and makes no request on the transport.
C19_InvalidUnits ==
    (run.tool = "weather" /\ run.payload.units \notin AcceptedUnits) =>
        /\ run.pc = "raised"
        /\ run.error.type = "ToolExecutionError"
        /\ run.error.msg = <<"Invalid unit system. Choose 'metric' or 'imperial'.">>
        /\ run.requests = <<>>
        /\ run.replies = <<>>
        /\ \A c \in DOMAIN req : req[c].pc = "idle" /\ req[c].made = 0

\* the handler was called with units kelvin on an adapter that has its key
C19_Witness ==
    /\ run.tool = "weather"
    /\ run.payload.units = "kelvin"
    /\ run.api_key = "key"
    /\ run.pc = "raised"

\* the transport's error for a response with this status
IsStatus(outcome, status) ==
    outcome.kind = "API request failed" /\ outcome.status = status

\* C20: the github handler requests the issues only after the request on the
\* repository; when that request ends with status 404 the handler fails with
\* a ToolExecutionError whose message has the owner and the repository and is
\* not the transport's message, and the issues are never requested.
C20_RepositoryCheckFirst ==
    run.tool = "github_issues" =>
        LET owner == run.payload.owner
            repo == run.payload.repo
        IN  /\ \A k \in DOMAIN run.requests :
                  run.requests[k].path = IssuesPath(owner, repo) =>
                      /\ k > 1
                      /\ run.requests[1].path = RepoPath(owner, repo)
                      /\ Len(run.replies) >= 1
            /\ (run.replies # <<>> /\ IsStatus(run.replies[1], 404)) =>
                  /\ run.pc = "raised"
                  /\ run.error.type = "ToolExecutionError"
                  /\ Mentions(run.error.msg, owner)
                  /\ Mentions(run.error.msg, repo)
                  /\ run.error.msg # Message(run.replies[1])
                  /\ Len(run.requests) = 1

\* the repository request of an invocation for octocat/spoon ended with 404
C20_Witness ==
    /\ run.tool = "github_issues"
    /\ run.payload.repo = "spoon"
    /\ run.replies # <<>>
    /\ IsStatus(run.replies[1], 404)
    /\ run.pc = "raised"

----------------------------------------------------------------------------
(* the catalog: list, get and invoke by a listed name *)

\* the register call of this log entry got past ToolCatalog.register
CatalogAccepted(entry) ==
    IF entry.op = "catalog.register" THEN entry.error = NoError ELSE entry.bind

\* the contracts that ToolCatalog.register accepted among log[1..n], in the
\* order of the calls
RECURSIVE Accepted(_, _)
Accepted(log, n) ==
    IF n = 0
    THEN <<>>
    ELSE IF CatalogAccepted(log[n])
         THEN Append(Accepted(log, n - 1), log[n].spec)
         ELSE Accepted(log, n - 1)

\* C21: list() is the sequence of the contracts whose register call
\* succeeded, in the order of those calls; get(name) is the listed contract
\* for each listed name and None for every other name; and
\* AIHubMCPServer.invoke with a listed name reaches that contract instead of
\* raising the unknown-tool error.
C21_ListGetRoundTrip ==
    LET listing == CatalogList(tools)
        Listed(name) == \E k \in DOMAIN listing : ToolSpecs[listing[k]].name = name
    IN  /\ listing = Accepted(regLog, Len(regLog))
        /\ \A k \in DOMAIN listing :
              CatalogGet(tools, ToolSpecs[listing[k]].name) = listing[k]
        /\ \A name \in ToolNames : ~Listed(name) => CatalogGet(tools, name) = 0
        /\ (inv.entry = "AIHubMCPServer.invoke" /\ Listed(inv.tool)) =>
              /\ inv.error.kind # "Unknown tool"
              /\ inv.spec # 0
              /\ inv.spec = CatalogGet(tools, inv.tool)

\* slack_post_message then weather were registered, and an invoke with the
\* name of the second listed contract has called its handler
C21_Witness ==
    /\ CatalogList(tools) = <<2, 1>>
    /\ inv.entry = "AIHubMCPServer.invoke"
    /\ inv.tool = ToolSpecs[CatalogList(tools)[2]].name
    /\ inv.called # <<>>

----------------------------------------------------------------------------
(* register_tool: the catalog and the host *)

\* the contracts of the calls among log[1..n] that ended without an exception
RECURSIVE Succeeded(_, _)
Succeeded(log, n) ==
    IF n = 0
    THEN <<>>
    ELSE IF log[n].error = NoError
         THEN Append(Succeeded(log, n - 1), log[n].spec)
         ELSE Succeeded(log, n - 1)

\* how many handlers the host holds under the name
BoundCount(name) == Cardinality({k \in DOMAIN hostTools : hostTools[k].name = name})

\* C22: after register_tool calls only, a name is in the catalog exactly when
\* the host holds one handler under it, and the catalog and the host hold the
\* contracts of the calls that succeeded and nothing of a call that failed.
C22_CatalogHostAgree ==
    (\A i \in DOMAIN regLog : regLog[i].op = "register_tool") =>
        /\ \A name \in ToolNames : DictHas(tools, name) <=> BoundCount(name) = 1
        /\ CatalogList(tools) = Succeeded(regLog, Len(regLog))
        /\ [k \in DOMAIN hostTools |-> hostTools[k].spec]
              = Succeeded(regLog, Len(regLog))

----------------------------------------------------------------------------
(* ensure_repository: which failures it rewords *)

\* the last part of the two messages that ensure_repository words itself
NotFoundText == "' not found. Confirm owner and repository name."

InaccessibleText ==
    "' is private or inaccessible. Provide a GitHub token via TOOL_GITHUB_ISSUES_CONFIG__TOKEN"

\* C23: when the repository request fails, ensure_repository raises the
\* not-found message only after a response with status 404, the
\* private-or-inaccessible message only after one with status 403, and for
\* every other failure the transport's error as it is.
C23_OnlyByStatus ==
    (/\ run.tool = "github_issues"
     /\ run.replies # <<>>
     /\ run.replies[1].tag = "error") =>
        LET o == run.replies[1] IN
        /\ Mentions(run.error.msg, NotFoundText) => IsStatus(o, 404)
        /\ Mentions(run.error.msg, InaccessibleText) => IsStatus(o, 403)
        /\ (~IsStatus(o, 404) /\ ~IsStatus(o, 403)) =>
              run.error = RunError(o.type, Message(o), o)

====
